---- MODULE Spec2Model ----
(***************************************************************************)
(* The indicator and signal engine of src/app.py: calculate_rsi,           *)
(* calculate_macd, calculate_bollinger_bands and generate_signals.         *)
(*                                                                         *)
(* State: the caller's DataFrame `df` (its index, its close column and the *)
(* indicator columns generate_signals writes into it), `result`, the value *)
(* the last call of generate_signals returned, and `calls`, the number of  *)
(* calls the caller has made with this frame.                              *)
(*                                                                         *)
(* Numbers.  The program computes in IEEE doubles.  A float is modelled as *)
(* a tagged value: <<"num", n>> is the finite number n / SCALE (fixed      *)
(* point, every division rounded to the nearest unit), <<"nan", 0>> is NaN *)
(* and <<"inf", s>> is the infinity of sign s.  NaN and the infinities     *)
(* follow IEEE: x / 0 is an infinity, 0 / 0 is NaN, every comparison with  *)
(* NaN is false.                                                           *)
(*                                                                         *)
(* pandas.  Series.diff, Series.where, Series.rolling(w).mean()/.std() and *)
(* Series.ewm(span=s).mean() are modelled by their documented results with *)
(* the defaults the program leaves in place: min_periods = window for      *)
(* rolling, ddof = 1 for std, adjust = True for ewm.                       *)
(*                                                                         *)
(* Inputs.  Init draws the argument of generate_signals from: None, and    *)
(* frames of 0, 1, GateBars - 1, GateBars, GateBars + 1 and MaxBars bars   *)
(* whose close is a drift, a break `back` bars before the end, a second    *)
(* slope and a zigzag.  Falling closes reach zero and below, and a frame   *)
(* may repeat its last timestamp or hold NaN as its last close: these are  *)
(* the malformed inputs.  `calls` counts the calls made on the frame.      *)
(***************************************************************************)
EXTENDS Integers, Sequences, FiniteSets, TLC

VARIABLES df, result, calls

vars == <<df, result, calls>>

\* ------------------------------------------------------------------ bounds
MaxBars == 30
MaxCalls == 2
MaxStep == 2
StartPrice == 40
SCALE == 1000

\* ------------------------------------------------------- program constants
GateBars == 20
RsiWindow == 14
MacdFast == 12
MacdSlow == 26
MacdSignal == 9
BbWindow == 20
BbNumStd == 2
Sma20Window == 20
Sma50Window == 50
RsiOversold == 30
RsiOverbought == 70
RsiStrengthTenths == 7
MacdStrengthTenths == 8
BbStrengthTenths == 6
ThresholdTenths == 6

\* -------------------------------------------------------------- the floats
Num(n) == <<"num", n>>
NaN == <<"nan", 0>>
Inf(s) == <<"inf", s>>
IsNum(x) == x[1] = "num"
IsNaN(x) == x[1] = "nan"
IsInf(x) == x[1] = "inf"

Min(a, b) == IF a < b THEN a ELSE b
Max(a, b) == IF a > b THEN a ELSE b
Sign(n) == IF n > 0 THEN 1 ELSE IF n < 0 THEN -1 ELSE 0

\* a / b for b > 0, rounded to the nearest integer
RDiv(a, b) == (a + (b \div 2)) \div b

FromInt(k) == Num(k * SCALE)
FromTenths(t) == Num(RDiv(t * SCALE, 10))

FNeg(x) ==
    IF IsNum(x) THEN Num(-x[2])
    ELSE IF IsInf(x) THEN Inf(-x[2])
    ELSE NaN

FAdd(x, y) ==
    IF IsNaN(x) \/ IsNaN(y) THEN NaN
    ELSE IF IsNum(x) /\ IsNum(y) THEN Num(x[2] + y[2])
    ELSE IF IsInf(x) /\ IsInf(y) THEN (IF x[2] = y[2] THEN x ELSE NaN)
    ELSE IF IsInf(x) THEN x
    ELSE y

FSub(x, y) == FAdd(x, FNeg(y))

FMul(x, y) ==
    IF IsNaN(x) \/ IsNaN(y) THEN NaN
    ELSE IF IsNum(x) /\ IsNum(y) THEN Num(RDiv(x[2] * y[2], SCALE))
    ELSE IF Sign(x[2]) * Sign(y[2]) = 0 THEN NaN
    ELSE Inf(Sign(x[2]) * Sign(y[2]))

FDiv(x, y) ==
    IF IsNaN(x) \/ IsNaN(y) THEN NaN
    ELSE IF IsNum(x) /\ IsNum(y) THEN
        IF y[2] = 0 THEN (IF x[2] = 0 THEN NaN ELSE Inf(Sign(x[2])))
        ELSE IF y[2] > 0 THEN Num(RDiv(x[2] * SCALE, y[2]))
        ELSE Num(RDiv((-x[2]) * SCALE, -y[2]))
    ELSE IF IsNum(x) THEN Num(0)
    ELSE IF IsInf(y) THEN NaN
    ELSE Inf(x[2] * (IF y[2] < 0 THEN -1 ELSE 1))

\* x < y on floats: false whenever either side is NaN
FLt(x, y) ==
    IF IsNaN(x) \/ IsNaN(y) THEN FALSE
    ELSE IF IsNum(x) /\ IsNum(y) THEN x[2] < y[2]
    ELSE IF IsInf(x) /\ IsInf(y) THEN x[2] < y[2]
    ELSE IF IsInf(x) THEN x[2] < 0
    ELSE y[2] > 0

FGt(x, y) == FLt(y, x)
FLe(x, y) == ~IsNaN(x) /\ ~IsNaN(y) /\ ~FLt(y, x)
FGe(x, y) == FLe(y, x)

RECURSIVE ISqrtIter(_, _)
ISqrtIter(n, x) ==
    LET y == (x + (n \div x)) \div 2
    IN  IF y >= x THEN x ELSE ISqrtIter(n, y)

\* floor of the square root of n >= 0
ISqrt(n) == IF n = 0 THEN 0 ELSE ISqrtIter(n, n)

FSqrt(x) ==
    IF IsNum(x) /\ x[2] >= 0 THEN Num(ISqrt(x[2] * SCALE))
    ELSE IF x = Inf(1) THEN x
    ELSE NaN

\* --------------------------------------------------------- pandas Series
Last(s) == s[Len(s)]
Prev(s) == s[Len(s) - 1]

SeriesSub(a, b) == [i \in 1..Len(a) |-> FSub(a[i], b[i])]
SeriesAdd(a, b) == [i \in 1..Len(a) |-> FAdd(a[i], b[i])]
SeriesDiv(a, b) == [i \in 1..Len(a) |-> FDiv(a[i], b[i])]
SeriesNeg(a) == [i \in 1..Len(a) |-> FNeg(a[i])]
SeriesScale(a, k) == [i \in 1..Len(a) |-> FMul(a[i], FromInt(k))]

\* Series.diff(): the first element has no predecessor
Diff(s) == [i \in 1..Len(s) |-> IF i = 1 THEN NaN ELSE FSub(s[i], s[i - 1])]

\* delta.where(delta > 0, 0): NaN > 0 is false, so a NaN becomes 0
WherePositive(s) ==
    [i \in 1..Len(s) |-> IF FGt(s[i], Num(0)) THEN s[i] ELSE Num(0)]

\* delta.where(delta < 0, 0)
WhereNegative(s) ==
    [i \in 1..Len(s) |-> IF FLt(s[i], Num(0)) THEN s[i] ELSE Num(0)]

RECURSIVE SumRange(_, _, _)
SumRange(s, lo, hi) ==
    IF lo > hi THEN 0 ELSE s[hi][2] + SumRange(s, lo, hi - 1)

WindowDefined(s, w, i) == i >= w /\ \A j \in (i - w + 1)..i : IsNum(s[j])

\* Series.rolling(window=w).mean(): NaN until the window is full
RollingMean(s, w) ==
    [i \in 1..Len(s) |->
        IF WindowDefined(s, w, i)
        THEN Num(RDiv(SumRange(s, i - w + 1, i), w))
        ELSE NaN]

RECURSIVE SumSqDev(_, _, _, _)
SumSqDev(s, m, lo, hi) ==
    IF lo > hi THEN 0
    ELSE RDiv((s[hi][2] - m) * (s[hi][2] - m), SCALE) + SumSqDev(s, m, lo, hi - 1)

\* Series.rolling(window=w).std(): the sample standard deviation (ddof = 1)
RollingStd(s, w) ==
    [i \in 1..Len(s) |->
        IF WindowDefined(s, w, i)
        THEN LET m == RDiv(SumRange(s, i - w + 1, i), w)
                 var == RDiv(SumSqDev(s, m, i - w + 1, i), w - 1)
             IN  FSqrt(Num(var))
        ELSE NaN]

\* Series.ewm(span=span).mean() with adjust = True and ignore_na = False:
\* the average of the values so far weighted by (1 - alpha)^age, with
\* alpha = 2 / (span + 1), kept as the running weight old_wt and the running
\* average avg.  A NaN value ages the weights and repeats the average; the
\* average starts at the first value that is not NaN.
RECURSIVE EwmFrom(_, _, _, _, _, _)
EwmFrom(s, span, i, old_wt, avg, acc) ==
    IF i > Len(s) THEN acc
    ELSE IF IsNaN(avg)
    THEN EwmFrom(s, span, i + 1, old_wt, s[i], Append(acc, s[i]))
    ELSE LET decayed == RDiv(old_wt * (span - 1), span + 1)
         IN  IF IsNaN(s[i])
             THEN EwmFrom(s, span, i + 1, decayed, avg, Append(acc, avg))
             ELSE LET next == Num(RDiv(decayed * avg[2] + SCALE * s[i][2],
                                       decayed + SCALE))
                  IN  EwmFrom(s, span, i + 1, decayed + SCALE, next,
                              Append(acc, next))

Ewm(s, span) ==
    IF Len(s) = 0 THEN << >>
    ELSE EwmFrom(s, span, 2, SCALE, s[1], <<s[1]>>)

\* ------------------------------------------------------------- indicators
\* gain and loss exchanged
calculate_rsi_swapped(prices) ==
    LET delta == Diff(prices)
        gain == RollingMean(WherePositive(delta), RsiWindow)
        loss == RollingMean(SeriesNeg(WhereNegative(delta)), RsiWindow)
        rs == SeriesDiv(loss, gain)
    IN  [i \in 1..Len(prices) |->
            FSub(FromInt(100), FDiv(FromInt(100), FAdd(FromInt(1), rs[i])))]

calculate_rsi(prices) ==
    LET delta == Diff(prices)
        gain == RollingMean(WherePositive(delta), RsiWindow)
        loss == RollingMean(SeriesNeg(WhereNegative(delta)), RsiWindow)
        rs == SeriesDiv(gain, loss)
    IN  [i \in 1..Len(prices) |->
            FSub(FromInt(100), FDiv(FromInt(100), FAdd(FromInt(1), rs[i])))]

calculate_macd(prices) ==
    LET ema_fast == Ewm(prices, MacdFast)
        ema_slow == Ewm(prices, MacdSlow)
        macd == SeriesSub(ema_fast, ema_slow)
        signal_line == Ewm(macd, MacdSignal)
    IN  [macd |-> macd, signal_line |-> signal_line,
         histogram |-> SeriesSub(macd, signal_line)]

calculate_bollinger_bands(prices) ==
    LET rolling_mean == RollingMean(prices, BbWindow)
        rolling_std == RollingStd(prices, BbWindow)
    IN  [upper_band |-> SeriesAdd(rolling_mean, SeriesScale(rolling_std, BbNumStd)),
         rolling_mean |-> rolling_mean,
         lower_band |-> SeriesSub(rolling_mean, SeriesScale(rolling_std, BbNumStd))]

\* --------------------------------------------------------------- the frame
None == [kind |-> "None"]
NotCalled == [kind |-> "NotCalled"]

DataFrame(index, close) ==
    [kind |-> "DataFrame", index |-> index, close |-> close, cols |-> << >>]

NBars(d) == Len(d.close)

\* df[name] = series for every name of `new`: a column is added or replaced
SetColumns(d, new) ==
    [d EXCEPT !.cols = [c \in (DOMAIN d.cols) \cup (DOMAIN new) |->
                            IF c \in DOMAIN new THEN new[c] ELSE d.cols[c]]]

\* the indicator columns generate_signals assigns into the frame it is given
WithIndicators(d) ==
    LET m == calculate_macd(d.close)
        bb == calculate_bollinger_bands(d.close)
    IN  SetColumns(d,
            [rsi |-> calculate_rsi(d.close),
             macd |-> m.macd, macd_signal |-> m.signal_line, macd_hist |-> m.histogram,
             bb_upper |-> bb.upper_band, bb_middle |-> bb.rolling_mean,
             bb_lower |-> bb.lower_band,
             sma_20 |-> RollingMean(d.close, Sma20Window),
             sma_50 |-> RollingMean(d.close, Sma50Window)])

\* ---------------------------------------------------------------- the rules
\* the gate off by one: a frame of exactly GateBars bars is refused
InsufficientHistory_off_by_one(d) ==
    IF d = None THEN TRUE ELSE NBars(d) <= GateBars

\* `df is None or len(df) < 20`: `or` does not evaluate len(None)
InsufficientHistory(d) == IF d = None THEN TRUE ELSE NBars(d) < GateBars

\* the rule with a memory: a signal the previous call reported is not repeated
RsiRule_debounced(d) ==
    IF result.kind = "dict" /\ \E i \in 1..Len(result.signals) : result.signals[i][1] = "RSI"
    THEN << >>
    ELSE IF FLt(Last(d.cols.rsi), FromInt(RsiOversold))
    THEN << <<"RSI", "BUY", "Oversold", FromTenths(RsiStrengthTenths)>> >>
    ELSE IF FGt(Last(d.cols.rsi), FromInt(RsiOverbought))
    THEN << <<"RSI", "SELL", "Overbought", FromTenths(RsiStrengthTenths)>> >>
    ELSE << >>

\* the rule reading an undefined RSI as 0 (as after fillna(0))
RsiRule_nan_as_zero(d) ==
    LET rsi == IF IsNaN(Last(d.cols.rsi)) THEN Num(0) ELSE Last(d.cols.rsi)
    IN  IF FLt(rsi, FromInt(RsiOversold))
        THEN << <<"RSI", "BUY", "Oversold", FromTenths(RsiStrengthTenths)>> >>
        ELSE IF FGt(rsi, FromInt(RsiOverbought))
        THEN << <<"RSI", "SELL", "Overbought", FromTenths(RsiStrengthTenths)>> >>
        ELSE << >>

RsiRule(d) ==
    IF FLt(Last(d.cols.rsi), FromInt(RsiOversold))
    THEN << <<"RSI", "BUY", "Oversold", FromTenths(RsiStrengthTenths)>> >>
    ELSE IF FGt(Last(d.cols.rsi), FromInt(RsiOverbought))
    THEN << <<"RSI", "SELL", "Overbought", FromTenths(RsiStrengthTenths)>> >>
    ELSE << >>

\* the crossover with strict comparisons on the previous bar
MacdRule_strict(d) ==
    IF NBars(d) > 1
    THEN IF /\ FGt(Last(d.cols.macd), Last(d.cols.macd_signal))
            /\ FLt(Prev(d.cols.macd), Prev(d.cols.macd_signal))
         THEN << <<"MACD", "BUY", "Bullish Crossover", FromTenths(MacdStrengthTenths)>> >>
         ELSE IF /\ FLt(Last(d.cols.macd), Last(d.cols.macd_signal))
                 /\ FGt(Prev(d.cols.macd), Prev(d.cols.macd_signal))
         THEN << <<"MACD", "SELL", "Bearish Crossover", FromTenths(MacdStrengthTenths)>> >>
         ELSE << >>
    ELSE << >>

MacdRule(d) ==
    IF NBars(d) > 1
    THEN IF /\ FGt(Last(d.cols.macd), Last(d.cols.macd_signal))
            /\ FLe(Prev(d.cols.macd), Prev(d.cols.macd_signal))
         THEN << <<"MACD", "BUY", "Bullish Crossover", FromTenths(MacdStrengthTenths)>> >>
         ELSE IF /\ FLt(Last(d.cols.macd), Last(d.cols.macd_signal))
                 /\ FGe(Prev(d.cols.macd), Prev(d.cols.macd_signal))
         THEN << <<"MACD", "SELL", "Bearish Crossover", FromTenths(MacdStrengthTenths)>> >>
         ELSE << >>
    ELSE << >>

BbRule(d) ==
    IF FLt(Last(d.close), Last(d.cols.bb_lower))
    THEN << <<"BB", "BUY", "Below Lower Band", FromTenths(BbStrengthTenths)>> >>
    ELSE IF FGt(Last(d.close), Last(d.cols.bb_upper))
    THEN << <<"BB", "SELL", "Above Upper Band", FromTenths(BbStrengthTenths)>> >>
    ELSE << >>

\* the MACD block placed before the RSI block
FiredSignals_reordered(d) == MacdRule(d) \o RsiRule(d) \o BbRule(d)

FiredSignals(d) == RsiRule(d) \o MacdRule(d) \o BbRule(d)

\* ----------------------------------------------------------- the aggregator
RECURSIVE SumStrength(_)
SumStrength(sigs) ==
    IF sigs = << >> THEN Num(0)
    ELSE FAdd(Head(sigs)[4], SumStrength(Tail(sigs)))

\* sum of the strengths / their number, or 0 for an empty side
SideStrength(signals, side) ==
    LET chosen == SelectSeq(signals, LAMBDA s : s[2] = side)
    IN  IF chosen # << >>
        THEN FDiv(SumStrength(chosen), FromInt(Len(chosen)))
        ELSE Num(0)

\* the threshold compared with >= instead of >
OverallSignal_inclusive(buy_strength, sell_strength) ==
    IF FGt(buy_strength, sell_strength) /\ FGe(buy_strength, FromTenths(ThresholdTenths))
    THEN "BUY"
    ELSE IF FGt(sell_strength, buy_strength)
            /\ FGe(sell_strength, FromTenths(ThresholdTenths))
    THEN "SELL"
    ELSE "NEUTRAL"

OverallSignal(buy_strength, sell_strength) ==
    IF FGt(buy_strength, sell_strength) /\ FGt(buy_strength, FromTenths(ThresholdTenths))
    THEN "BUY"
    ELSE IF FGt(sell_strength, buy_strength)
            /\ FGt(sell_strength, FromTenths(ThresholdTenths))
    THEN "SELL"
    ELSE "NEUTRAL"

\* the dict generate_signals returns; 'data' is the frame it was given
Verdict(d) ==
    LET signals == FiredSignals(d)
        buy_strength == SideStrength(signals, "BUY")
        sell_strength == SideStrength(signals, "SELL")
    IN  [kind |-> "dict",
         signals |-> signals,
         overall |-> OverallSignal(buy_strength, sell_strength),
         buy_strength |-> buy_strength,
         sell_strength |-> sell_strength,
         data |-> d]

\* ------------------------------------------------------------------ inputs
Lens == {0, 1, GateBars - 1, GateBars, GateBars + 1, MaxBars}
Drifts == {-1, 0, 1}
Steps == (-MaxStep)..MaxStep
Zigs == {0, 1, 5}
Backs == {1, 2, 5, RsiWindow}

Closes(n, d1, back, d2, z) ==
    LET k == Max(0, n - back)
    IN  [i \in 1..n |->
            FromInt(StartPrice + d1 * Min(i - 1, k) + d2 * Max(0, i - 1 - k)
                    + z * ((i - 1) % 2))]

Defects == {"none", "repeated_timestamp", "nan_close"}

Timestamps(n, defect) ==
    [i \in 1..n |-> IF defect = "repeated_timestamp" /\ i = n /\ n > 1
                     THEN n - 1 ELSE i]

Damaged(close, defect) ==
    [i \in 1..Len(close) |-> IF defect = "nan_close" /\ i = Len(close)
                              THEN NaN ELSE close[i]]

Inputs ==
    {None} \cup
    { DataFrame(Timestamps(n, defect), Damaged(Closes(n, d1, back, d2, z), defect)) :
        n \in Lens, d1 \in Drifts, back \in Backs, d2 \in Steps, z \in Zigs,
        defect \in Defects }

\* ------------------------------------------------------------------ actions
Init ==
    /\ df \in Inputs
    /\ result = NotCalled
    /\ calls = 0

\* generate_signals(df) stopped by the gate: nothing is computed
generate_signals_gate ==
    /\ calls < MaxCalls
    /\ InsufficientHistory(df)
    /\ result' = None
    /\ calls' = calls + 1
    /\ UNCHANGED df

\* generate_signals(df) past the gate: the columns are written into df, the
\* rules read them back, and the dict is returned
generate_signals_run ==
    /\ calls < MaxCalls
    /\ ~InsufficientHistory(df)
    /\ df' = WithIndicators(df)
    /\ result' = Verdict(df')
    /\ calls' = calls + 1

generate_signals == generate_signals_gate \/ generate_signals_run

Next == generate_signals

Spec == Init /\ [][Next]_vars

\* ------------------------------------------------------------------ claims
IsVerdict == result.kind = "dict"

HasSignal(name, side) ==
    \E i \in 1..Len(result.signals) :
        result.signals[i][1] = name /\ result.signals[i][2] = side

FiredBy(name) == HasSignal(name, "BUY") \/ HasSignal(name, "SELL")

\* timestamps not strictly increasing, or a price not finite or not positive
Malformed(d) ==
    \/ \E i \in 1..(Len(d.index) - 1) : d.index[i + 1] <= d.index[i]
    \/ \E i \in 1..Len(d.close) : ~IsNum(d.close[i])
    \/ \E i \in 1..Len(d.close) : IsNum(d.close[i]) /\ d.close[i][2] <= 0

WellFormed(d) == IF d = None THEN FALSE ELSE ~Malformed(d)

\* C1: generate_signals returns None for None and for every frame of fewer
\* than 20 bars (the empty frame, 19 bars), and a Verdict for every frame of
\* 20 bars or more.
C1_GateBoundary ==
    calls > 0 =>
        IF df = None THEN result = None
        ELSE IF Len(df.close) < 20 THEN result = None
        ELSE result.kind = "dict"

\* a well-formed frame of exactly 20 bars got a Verdict
C1_Witness ==
    /\ calls > 0
    /\ WellFormed(df)
    /\ Len(df.close) = 20
    /\ result.kind = "dict"

RECURSIVE C2_Sum(_, _, _)
C2_Sum(sigs, side, i) ==
    IF i = 0 THEN 0
    ELSE (IF sigs[i][2] = side THEN sigs[i][4][2] ELSE 0) + C2_Sum(sigs, side, i - 1)

C2_Count(sigs, side) == Cardinality({i \in 1..Len(sigs) : sigs[i][2] = side})

C2_Mean(sigs, side) ==
    IF C2_Count(sigs, side) = 0 THEN 0
    ELSE RDiv(C2_Sum(sigs, side, Len(sigs)), C2_Count(sigs, side))

\* C2: with buy_strength and sell_strength the mean strengths of the BUY and
\* of the SELL signals (0 for an empty side), overall is BUY exactly when
\* buy_strength > sell_strength and buy_strength > 0.6, SELL exactly when
\* sell_strength > buy_strength and sell_strength > 0.6, NEUTRAL otherwise;
\* equal strengths give NEUTRAL.
C2_OverallRule ==
    IsVerdict =>
        LET b == C2_Mean(result.signals, "BUY")
            s == C2_Mean(result.signals, "SELL")
            t == RDiv(6 * SCALE, 10)
        IN  /\ result.buy_strength = Num(b)
            /\ result.sell_strength = Num(s)
            /\ result.overall \in {"BUY", "SELL", "NEUTRAL"}
            /\ (result.overall = "BUY") <=> (b > s /\ b > t)
            /\ (result.overall = "SELL") <=> (s > b /\ s > t)
            /\ (b = s => result.overall = "NEUTRAL")

\* the Bollinger rule fired alone: a side of strength exactly 0.6
C2_Witness ==
    /\ IsVerdict
    /\ WellFormed(df)
    /\ Len(result.signals) = 1
    /\ result.signals[1][1] = "BB"
    /\ result.overall = "NEUTRAL"

VerdictOnly(r) ==
    IF r.kind = "dict"
    THEN <<r.overall, r.buy_strength, r.sell_strength, r.signals>>
    ELSE <<r.kind>>

Bars(d) == IF d = None THEN << >> ELSE <<d.index, d.close>>

\* C3: a call of generate_signals on the bars an earlier call was given
\* returns the Verdict (overall, strengths, ordered signals) that call
\* returned: nothing is kept from one run to the next.
C3_Deterministic ==
    [][(calls > 0 /\ Bars(df') = Bars(df))
        => VerdictOnly(result') = VerdictOnly(result)]_vars

\* a second call on the same bars returned a Verdict with signals in it
C3_Witness ==
    /\ calls >= 2
    /\ IsVerdict
    /\ WellFormed(df)
    /\ result.signals # << >>

\* C4: from a frame whose timestamps are not strictly increasing, or with a
\* price that is not finite or not positive, generate_signals never produces
\* a Verdict.
C4_MalformedRejected ==
    (calls > 0 /\ df # None /\ Malformed(df)) => result.kind # "dict"

C5_RsiUndefined == IsNaN(Last(df.cols.rsi))

C5_MacdUndefined ==
    \/ IsNaN(Last(df.cols.macd)) \/ IsNaN(Last(df.cols.macd_signal))
    \/ IsNaN(Prev(df.cols.macd)) \/ IsNaN(Prev(df.cols.macd_signal))

C5_BbUndefined ==
    \/ IsNaN(Last(df.close))
    \/ IsNaN(Last(df.cols.bb_lower))
    \/ IsNaN(Last(df.cols.bb_upper))

\* C5: a rule whose latest (for MACD also second-latest) indicator value is
\* undefined emits no signal, and the signals of the run are those of the
\* other rules; flat closes over the last 14 steps leave the RSI undefined
\* and the RSI rule silent.
C5_UndefinedSkipsRule ==
    IsVerdict =>
        /\ C5_RsiUndefined =>
            (~FiredBy("RSI") /\ result.signals = MacdRule(df) \o BbRule(df))
        /\ C5_MacdUndefined =>
            (~FiredBy("MACD") /\ result.signals = RsiRule(df) \o BbRule(df))
        /\ C5_BbUndefined =>
            (~FiredBy("BB") /\ result.signals = RsiRule(df) \o MacdRule(df))

\* a run on a well-formed frame whose latest RSI is 0 / 0
C5_Witness ==
    /\ IsVerdict
    /\ WellFormed(df)
    /\ C5_RsiUndefined

C6_Allowed ==
    { <<"RSI", "BUY", "Oversold", Num(RDiv(7 * SCALE, 10))>>,
      <<"RSI", "SELL", "Overbought", Num(RDiv(7 * SCALE, 10))>>,
      <<"MACD", "BUY", "Bullish Crossover", Num(RDiv(8 * SCALE, 10))>>,
      <<"MACD", "SELL", "Bearish Crossover", Num(RDiv(8 * SCALE, 10))>>,
      <<"BB", "BUY", "Below Lower Band", Num(RDiv(6 * SCALE, 10))>>,
      <<"BB", "SELL", "Above Upper Band", Num(RDiv(6 * SCALE, 10))>> }

C6_Rank(name) == IF name = "RSI" THEN 1 ELSE IF name = "MACD" THEN 2 ELSE 3

\* C6: the signals of a Verdict are at most one per rule, in the order RSI,
\* MACD, Bollinger, each with its rule's fixed strength (0.7, 0.8, 0.6) and
\* the reason of its direction.
C6_OnePerRuleInOrder ==
    IsVerdict =>
        /\ Len(result.signals) <= 3
        /\ \A i \in 1..Len(result.signals) : result.signals[i] \in C6_Allowed
        /\ \A i, j \in 1..Len(result.signals) :
            i < j => C6_Rank(result.signals[i][1]) < C6_Rank(result.signals[j][1])

\* all three rules fired in one run
C6_Witness == IsVerdict /\ WellFormed(df) /\ Len(result.signals) = 3

C7_StrictlyDecreasing(close) ==
    \A i \in 1..(Len(close) - 1) :
        IsNum(close[i]) /\ IsNum(close[i + 1]) /\ close[i + 1][2] < close[i][2]

\* C7: on strictly decreasing closes of length at least 30 the latest RSI is
\* below 30 and the signals hold RSI BUY "Oversold" 0.7, and no RSI SELL.
C7_DecreasingIsOversold ==
    (IsVerdict /\ Len(df.close) >= 30 /\ C7_StrictlyDecreasing(df.close)) =>
        /\ IsNum(Last(df.cols.rsi))
        /\ Last(df.cols.rsi)[2] < 30 * SCALE
        /\ \E i \in 1..Len(result.signals) :
            result.signals[i] = <<"RSI", "BUY", "Oversold", Num(RDiv(7 * SCALE, 10))>>
        /\ ~HasSignal("RSI", "SELL")

\* a run on 30 or more strictly decreasing, positive closes
C7_Witness ==
    /\ IsVerdict
    /\ Len(df.close) >= 30
    /\ C7_StrictlyDecreasing(df.close)
    /\ WellFormed(df)

\* C8: generate_signals leaves the (well-formed) frame it is given as it
\* was: no step changes df.
C8_InputUnchanged == [][WellFormed(df) => df' = df]_vars

C9_Close(a, b) == a - b <= 2 /\ b - a <= 2

\* ema[0] = series[0], ema[i] = alpha series[i] + (1 - alpha) ema[i-1] with
\* alpha = 2 / (span + 1), to within two units of rounding
C9_IsPlainEma(ema, series, span) ==
    /\ Len(ema) = Len(series)
    /\ ema[1] = series[1]
    /\ \A i \in 2..Len(series) :
        /\ IsNum(ema[i])
        /\ C9_Close(ema[i][2],
                    RDiv(2 * series[i][2] + (span - 1) * ema[i - 1][2], span + 1))

\* C9: on a well-formed frame the moving averages behind macd and
\* macd_signal (spans 12, 26, 9) follow the plain recurrence at every index.
C9_PlainRecurrence ==
    (IsVerdict /\ WellFormed(df)) =>
        /\ C9_IsPlainEma(Ewm(df.close, MacdFast), df.close, 12)
        /\ C9_IsPlainEma(Ewm(df.close, MacdSlow), df.close, 26)
        /\ C9_IsPlainEma(df.cols.macd_signal, df.cols.macd, 9)

C10_Up ==
    /\ Prev(df.cols.macd)[2] <= Prev(df.cols.macd_signal)[2]
    /\ Last(df.cols.macd)[2] > Last(df.cols.macd_signal)[2]

C10_Down ==
    /\ Prev(df.cols.macd)[2] >= Prev(df.cols.macd_signal)[2]
    /\ Last(df.cols.macd)[2] < Last(df.cols.macd_signal)[2]

C10_Defined ==
    /\ IsNum(Last(df.cols.macd)) /\ IsNum(Last(df.cols.macd_signal))
    /\ IsNum(Prev(df.cols.macd)) /\ IsNum(Prev(df.cols.macd_signal))

\* C10: the MACD rule emits BUY "Bullish Crossover" exactly when
\* macd[prev] <= macd_signal[prev] and macd[latest] > macd_signal[latest],
\* SELL "Bearish Crossover" exactly when macd[prev] >= macd_signal[prev] and
\* macd[latest] < macd_signal[latest], and nothing otherwise, whatever the
\* earlier bars did.
C10_TwoBarCrossover ==
    (IsVerdict /\ C10_Defined) =>
        /\ HasSignal("MACD", "BUY") <=> C10_Up
        /\ HasSignal("MACD", "SELL") <=> C10_Down
        /\ \A i \in 1..Len(result.signals) :
            result.signals[i][1] = "MACD" =>
                result.signals[i][3] = (IF C10_Up THEN "Bullish Crossover"
                                        ELSE "Bearish Crossover")

\* the rule fired BUY on a crossover between the last two bars
C10_Witness ==
    /\ IsVerdict
    /\ WellFormed(df)
    /\ C10_Defined
    /\ C10_Up
    /\ HasSignal("MACD", "BUY")

====
